---- MODULE Spec2Model ----
(***************************************************************************)
(* Branch-and-bound engine (src/bb.py) driven by the 0/1 knapsack instance *)
(* class (src/knapsack.py).                                                *)
(*                                                                         *)
(* Python objects are mutable and shared by reference (the incumbent       *)
(* best_I aliases an instance that came out of the instance set), so the   *)
(* instances live in an object store `objs` and are named by their index.  *)
(* Optional attributes (None in Python) are sequences of length 0 or 1.    *)
(* Positions in vw_frac_sortI and item numbers are 1-based here; the       *)
(* field `index` keeps the numeric value it has in the code (the number of *)
(* sorted positions already decided).                                      *)
(***************************************************************************)
EXTENDS Integers, Sequences, FiniteSets

\* ---------------------------------------------------------------- bounds
\* items of a root drawn from the value/weight grid
MaxItems == 3
\* item values are 0..MaxValue
MaxValue == 2
\* item weights are 1..MaxWeight
MaxWeight == 3
\* capacities are 0..MaxCapacity
MaxCapacity == 4
\* finite branch budgets are 0..MaxBudget
MaxBudget == 1

\* numpy float64: significant bits of the binary64 format
MantissaBits == 53

NoneVal == << >>
Some(x) == << x >>
IsSet(o) == o # NoneVal
Val(o)  == o[1]

RECURSIVE SumSeq(_)
SumSeq(s) == IF s = << >> THEN 0 ELSE Head(s) + SumSeq(Tail(s))

\* ------------------------------------------------- binary64 arithmetic
\* A non-negative binary64 value is [ip |-> integer part,
\* fb |-> fractional bits, most significant first, no trailing zero].

RECURSIVE BitLen(_)
BitLen(k) == IF k = 0 THEN 0 ELSE 1 + BitLen(k \div 2)

MinOf(S) == CHOOSE i \in S : \A j \in S : i <= j
MaxOf(S) == 0 - MinOf({0 - i : i \in S})

OnesOf(bits) == {i \in 1..Len(bits) : bits[i] = 1}

StripZeros(bits) ==
  IF bits = << >> \/ bits[Len(bits)] = 1 THEN bits
  ELSE IF OnesOf(bits) = {} THEN << >>
  ELSE SubSeq(bits, 1, MaxOf(OnesOf(bits)))

LeadingZeros(bits) ==
  IF bits # << >> /\ bits[1] = 1 THEN 0
  ELSE IF OnesOf(bits) = {} THEN Len(bits)
  ELSE MinOf(OnesOf(bits)) - 1

IntF(k) == [ip |-> k, fb |-> << >>]

\* add one unit in the last place of a bit string (with carry out)
IncBits(bits) ==
  LET zeros == {i \in 1..Len(bits) : bits[i] = 0}
  IN  IF zeros = {}
      THEN [carry |-> 1, bits |-> [i \in 1..Len(bits) |-> 0]]
      ELSE LET z == MaxOf(zeros)
           IN  [carry |-> 0,
                bits  |-> [i \in 1..Len(bits) |->
                             IF i < z THEN bits[i] ELSE IF i = z THEN 1 ELSE 0]]

\* number of fractional bits a binary64 keeps for a value ip.fb
KeptFractionBits(ip, fb) ==
  IF ip > 0 THEN MantissaBits - BitLen(ip)
  ELSE LeadingZeros(fb) + MantissaBits

\* round to nearest, ties to even
Round53(x) ==
  LET fb == StripZeros(x.fb)
      k  == KeptFractionBits(x.ip, fb)
  IN  IF Len(fb) <= k THEN [ip |-> x.ip, fb |-> fb]
      ELSE LET kept == SubSeq(fb, 1, k)
               rest == SubSeq(fb, k + 1, Len(fb))
               odd  == IF k = 0 THEN x.ip % 2 = 1 ELSE kept[k] = 1
               up   == rest[1] = 1 /\ (Len(rest) > 1 \/ odd)
               inc  == IncBits(kept)
           IN  IF up
               THEN [ip |-> x.ip + inc.carry, fb |-> StripZeros(inc.bits)]
               ELSE [ip |-> x.ip, fb |-> StripZeros(kept)]

\* 2^i modulo w, by repeated squaring
RECURSIVE Pow2Mod(_, _)
Pow2Mod(i, w) ==
  IF i = 0 THEN 1 % w
  ELSE LET h == Pow2Mod(i \div 2, w)
       IN  IF i % 2 = 0 THEN (h * h) % w ELSE (2 * h * h) % w

\* remainder of the long division r / w after i binary digits (0 <= r < w)
RemAt(r, w, i) == (r * Pow2Mod(i, w)) % w

\* the first k bits of the binary expansion of r / w (0 <= r < w)
DivBits(r, w, k) ==
  [bits |-> [i \in 1..k |-> IF 2 * RemAt(r, w, i - 1) >= w THEN 1 ELSE 0],
   rem  |-> RemAt(r, w, k)]

\* number of zero bits before the first one bit of r / w (0 < r < w)
RECURSIVE DivLeadingZeros(_, _)
DivLeadingZeros(r, w) ==
  IF 2 * r >= w THEN 0 ELSE 1 + DivLeadingZeros(2 * r, w)

\* values / weights on integer arrays gives the correctly rounded quotient
FDiv(v, w) ==
  LET ip == v \div w
      r  == v % w
  IN  IF r = 0 THEN IntF(ip)
      ELSE LET k == IF ip > 0 THEN MantissaBits - BitLen(ip)
                    ELSE DivLeadingZeros(r, w) + MantissaBits
               d == DivBits(r, w, k)
               \* one guard bit and a sticky bit stand for the remainder
               g == IF 2 * d.rem >= w THEN 1 ELSE 0
               s == IF 2 * d.rem - g * w > 0 THEN 1 ELSE 0
           IN  Round53([ip |-> ip, fb |-> d.bits \o <<g, s>>])

RECURSIVE BitsToInt(_)
BitsToInt(bits) ==
  IF bits = << >> THEN 0
  ELSE 2 * BitsToInt(SubSeq(bits, 1, Len(bits) - 1)) + bits[Len(bits)]

IntToBits(k, c) == [i \in 1..c |-> (k \div (2 ^ (c - i))) % 2]

\* exact product of a small integer and a bit string, eight bits at a time
\* from the low end
RECURSIVE MulBits(_, _, _)
MulBits(m, bits, carry) ==
  IF bits = << >> THEN [carry |-> carry, bits |-> << >>]
  ELSE LET c == IF Len(bits) < 8 THEN Len(bits) ELSE 8
           t == m * BitsToInt(SubSeq(bits, Len(bits) - c + 1, Len(bits))) + carry
           r == MulBits(m, SubSeq(bits, 1, Len(bits) - c), t \div (2 ^ c))
       IN  [carry |-> r.carry, bits |-> r.bits \o IntToBits(t % (2 ^ c), c)]

\* int64 * float64
FMulInt(m, x) ==
  LET p == MulBits(m, x.fb, 0)
  IN  Round53([ip |-> m * x.ip + p.carry, fb |-> p.bits])

\* int + float64
FAddInt(k, x) == Round53([ip |-> x.ip + k, fb |-> x.fb])

\* int(x) of a non-negative float
FTrunc(x) == x.ip

BitsGt(a, b) ==
  LET n    == IF Len(a) > Len(b) THEN Len(a) ELSE Len(b)
      at(s, i) == IF i <= Len(s) THEN s[i] ELSE 0
      diff == {i \in 1..n : at(a, i) # at(b, i)}
  IN  diff # {} /\ at(a, MinOf(diff)) = 1

FGt(x, y) == x.ip > y.ip \/ (x.ip = y.ip /\ BitsGt(x.fb, y.fb))

\* ------------------------------------------------ Knapsack (knapsack.py)
\* Problem specific data attributes: shared by every instance of a problem
\* (copy.copy is shallow) and never written after __init__.
ProblemData(capacity, values, weights, sortI, int_problem) ==
  [max_capacity  |-> capacity,
   values        |-> values,
   weights       |-> weights,
   vw_frac       |-> [i \in 1..Len(values) |-> FDiv(values[i], weights[i])],
   vw_frac_sortI |-> sortI,
   n_items       |-> Len(values),
   int_problem   |-> int_problem]

\* Instance specific data attributes as __init__ leaves them
NewInstance(p) ==
  [solution      |-> [i \in 1..p.n_items |-> 0],
   index         |-> 0,
   curr_weight   |-> 0,
   curr_value    |-> 0,
   heur_solution |-> NoneVal,
   heur_weight   |-> NoneVal,
   lower_bound   |-> NoneVal,
   upper_bound   |-> NoneVal]

isUpperBoundSet(x) == IsSet(x.upper_bound)
isLowerBoundSet(x) == IsSet(x.lower_bound)

\* the getters return the attribute, None included
getUpperBound(x) == x.upper_bound
getLowerBound(x) == x.lower_bound
getHeuristicSolution(x) == x.heur_solution

\* the loop of calcUpperBound over vw_frac_sortI[pos..], with the running
\* weight and the running (integer) bound
RECURSIVE UpperBoundFrom(_, _, _, _)
UpperBoundFrom(p, pos, weight, bound) ==
  IF pos > p.n_items THEN IntF(bound)
  ELSE LET item     == p.vw_frac_sortI[pos]
           p_weight == weight + p.weights[item]
       IN  IF p_weight <= p.max_capacity
           THEN UpperBoundFrom(p, pos + 1, p_weight, bound + p.values[item])
           ELSE FAddInt(bound,
                        FMulInt(p.max_capacity - weight, p.vw_frac[item]))

calcUpperBound(p, x) ==
  LET ub == UpperBoundFrom(p, x.index + 1, x.curr_weight, x.curr_value)
  IN  [x EXCEPT !.upper_bound =
         Some(IF p.int_problem THEN IntF(FTrunc(ub)) ELSE ub)]

\* the greedy loop without the capacity test: every item is taken
RECURSIVE LowerBoundFromNoFit(_, _, _)
LowerBoundFromNoFit(p, pos, acc) ==
  IF pos > p.n_items THEN acc
  ELSE LET item == p.vw_frac_sortI[pos]
       IN  LowerBoundFromNoFit(p, pos + 1,
             [heur_weight   |-> acc.heur_weight + p.weights[item],
              heur_solution |-> [acc.heur_solution EXCEPT ![item] = 1],
              lower_bound   |-> acc.lower_bound + p.values[item]])

\* the loop of calcLowerBound over vw_frac_sortI[pos..]
RECURSIVE LowerBoundFrom(_, _, _)
LowerBoundFrom(p, pos, acc) ==
  IF pos > p.n_items THEN acc
  ELSE LET item     == p.vw_frac_sortI[pos]
           p_weight == acc.heur_weight + p.weights[item]
       IN  IF p_weight <= p.max_capacity
           THEN LowerBoundFrom(p, pos + 1,
                  [heur_weight   |-> p_weight,
                   heur_solution |-> [acc.heur_solution EXCEPT ![item] = 1],
                   lower_bound   |-> acc.lower_bound + p.values[item]])
           ELSE LowerBoundFrom(p, pos + 1, acc)

calcLowerBound(p, x) ==
  LET r == LowerBoundFrom(p, x.index + 1,
             [heur_weight   |-> x.curr_weight,
              heur_solution |-> x.solution,
              lower_bound   |-> x.curr_value])
  IN  [x EXCEPT !.lower_bound   = Some(r.lower_bound),
                !.heur_solution = Some(r.heur_solution),
                !.heur_weight   = Some(r.heur_weight)]

\* genInitialSolution doing nothing
genInitialSolutionSkipped(p, x) == x

genInitialSolution(p, x) == calcLowerBound(p, x)

\* includeItem(item, index): index is the 0-based position of the item in
\* vw_frac_sortI, as in the code
includeItemFits(p, x, item) ==
  ~ (x.curr_weight + p.weights[item] > p.max_capacity)

includeItem(p, x, item, index) ==
  [x EXCEPT !.solution[item] = 1,
            !.index          = index + 1,
            !.curr_value     = x.curr_value + p.values[item],
            !.curr_weight    = x.curr_weight + p.weights[item],
            !.heur_solution  = NoneVal,
            !.heur_weight    = NoneVal,
            !.lower_bound    = NoneVal,
            !.upper_bound    = NoneVal]

\* Knapsack.copy: a new object with its own solution and heur_solution
\* arrays; as a value it equals the origin
copy(x) == x

\* branch() returning the children in forward order of position
RECURSIVE BranchFromForward(_, _, _)
BranchFromForward(p, x, index) ==
  IF index < x.index THEN << >>
  ELSE LET item == p.vw_frac_sortI[index + 1]
           rest == BranchFromForward(p, x, index - 1)
       IN  IF includeItemFits(p, copy(x), item)
           THEN rest \o <<includeItem(p, copy(x), item, index)>>
           ELSE rest

\* branch(): for index = n_items-1 down to self.index, a copy with the item
\* at that sorted position included, when it fits
RECURSIVE BranchFrom(_, _, _)
BranchFrom(p, x, index) ==
  IF index < x.index THEN << >>
  ELSE LET item == p.vw_frac_sortI[index + 1]
           rest == BranchFrom(p, x, index - 1)
       IN  IF includeItemFits(p, copy(x), item)
           THEN <<includeItem(p, copy(x), item, index)>> \o rest
           ELSE rest

branch(p, x) == BranchFrom(p, x, p.n_items - 1)

\* branch() calls Knapsack.copy at least once
BranchCallsCopy(p, x) == x.index <= p.n_items - 1

\* ------------------------------------------------------ Instance (bb.py)
\* The engine's methods act on objects of the store: objs[i] is self

\* isPromising(self, current) computes and caches self's upper bound first
isPromisingStore(p, objs, i) ==
  IF isUpperBoundSet(objs[i]) THEN objs
  ELSE [objs EXCEPT ![i] = calcUpperBound(p, objs[i])]

isPromising(p, objs, i, current) ==
  LET o == isPromisingStore(p, objs, i)
  IN  FGt(Val(getUpperBound(o[i])), IntF(Val(getLowerBound(o[current]))))

\* isBetterThen(self, current) computes and caches self's lower bound first
isBetterThenStore(p, objs, i) ==
  IF isLowerBoundSet(objs[i]) THEN objs
  ELSE [objs EXCEPT ![i] = calcLowerBound(p, objs[i])]

\* the comparison of a minimization problem used for a maximization one
isBetterThenSmaller(p, objs, i, current) ==
  LET o == isBetterThenStore(p, objs, i)
  IN  Val(getLowerBound(o[i])) < Val(getLowerBound(o[current]))

isBetterThen(p, objs, i, current) ==
  LET o == isBetterThenStore(p, objs, i)
  IN  Val(getLowerBound(o[i])) > Val(getLowerBound(o[current]))

\* the comparison turned round: self < other iff self's bound is smaller
InstanceLtSmallerFirst(objs, i, other) ==
  FGt(Val(objs[other].upper_bound), Val(objs[i].upper_bound))

\* __lt__ of a maximization problem: self < other iff self's bound is greater
InstanceLt(objs, i, other) ==
  FGt(Val(getUpperBound(objs[i])), Val(getUpperBound(objs[other])))

getHeuristicSolutionValue(x) == getLowerBound(x)

\* --------------------------------------------------- InstanceSet (bb.py)
\* queue.PriorityQueue keeps a binary heap (heapq) in a list

RECURSIVE SiftDown(_, _, _, _, _)
SiftDown(objs, heap, startpos, pos, newitem) ==
  IF pos > startpos /\ InstanceLt(objs, newitem, heap[pos \div 2])
  THEN SiftDown(objs, [heap EXCEPT ![pos] = heap[pos \div 2]],
                startpos, pos \div 2, newitem)
  ELSE [heap EXCEPT ![pos] = newitem]

RECURSIVE SiftUp(_, _, _, _, _)
SiftUp(objs, heap, startpos, pos, newitem) ==
  LET endpos   == Len(heap)
      leftpos  == 2 * pos
      rightpos == leftpos + 1
      childpos == IF rightpos <= endpos
                     /\ ~ InstanceLt(objs, heap[leftpos], heap[rightpos])
                  THEN rightpos ELSE leftpos
  IN  IF leftpos <= endpos
      THEN SiftUp(objs, [heap EXCEPT ![pos] = heap[childpos]],
                  startpos, childpos, newitem)
      ELSE SiftDown(objs, [heap EXCEPT ![pos] = newitem],
                    startpos, pos, newitem)

HeapPush(objs, heap, ref) ==
  SiftDown(objs, Append(heap, ref), 1, Len(heap) + 1, ref)

HeapPop(objs, heap) ==
  LET lastelt == heap[Len(heap)]
      rest    == SubSeq(heap, 1, Len(heap) - 1)
  IN  IF rest = << >> THEN [item |-> lastelt, iset |-> rest]
      ELSE [item |-> rest[1],
            iset |-> SiftUp(objs, [rest EXCEPT ![1] = lastelt], 1, 1, lastelt)]

Strategies == {"best_first", "depth_first", "breath_first"}

isEmpty(iset) == iset = << >>

addInstance(sstrategy, objs, iset, ref) ==
  IF sstrategy = "best_first" THEN HeapPush(objs, iset, ref)
  ELSE Append(iset, ref)

getNextInstance(sstrategy, objs, iset) ==
  IF sstrategy = "best_first" THEN HeapPop(objs, iset)
  ELSE IF sstrategy = "depth_first"
       THEN [item |-> iset[Len(iset)], iset |-> SubSeq(iset, 1, Len(iset) - 1)]
       ELSE [item |-> Head(iset), iset |-> Tail(iset)]

\* InstanceSet.__init__ for a supported strategy: the store and the set
InstanceSetInit(p, sstrategy, objs, root) ==
  LET o == IF sstrategy = "best_first" /\ ~ isUpperBoundSet(objs[root])
           THEN [objs EXCEPT ![root] = calcUpperBound(p, objs[root])]
           ELSE objs
  IN  [objs |-> o, iset |-> addInstance(sstrategy, o, << >>, root)]

\* the loop over I.branch() with the result of the test ignored: every
\* child is added
RECURSIVE AddPromisingUntested(_, _, _, _, _)
AddPromisingUntested(p, sstrategy, best, children, st) ==
  IF children = << >> THEN st
  ELSE LET ref == Len(st.objs) + 1
           o   == isPromisingStore(p, Append(st.objs, Head(children)), ref)
       IN  AddPromisingUntested(p, sstrategy, best, Tail(children),
             [objs    |-> o,
              iset    |-> addInstance(sstrategy, o, st.iset, ref),
              dropped |-> st.dropped])

\* the loop of solve over I.branch(): a child is put in the store, tested
\* and added to the set when promising; st = [objs, iset, dropped]
RECURSIVE AddPromising(_, _, _, _, _)
AddPromising(p, sstrategy, best, children, st) ==
  IF children = << >> THEN st
  ELSE LET ref   == Len(st.objs) + 1
           o     == isPromisingStore(p, Append(st.objs, Head(children)), ref)
           keep  == isPromising(p, o, ref, best)
       IN  AddPromising(p, sstrategy, best, Tail(children),
             IF keep
             THEN [objs    |-> o,
                   iset    |-> addInstance(sstrategy, o, st.iset, ref),
                   dropped |-> st.dropped]
             ELSE [objs    |-> st.objs,
                   iset    |-> st.iset,
                   dropped |-> Append(st.dropped, o[ref])])

\* the loop condition without the budget test
LoopConditionNoBudget(iset, branch_c, max_branches) ==
  ~ (iset = << >>)

\* the loop condition with the budget test off by one (<= for <)
LoopConditionOffByOne(iset, branch_c, max_branches) ==
  ~ (iset = << >>) /\ (branch_c <= max_branches \/ max_branches = -1)

\* the loop condition of solve
LoopCondition(iset, branch_c, max_branches) ==
  ~ isEmpty(iset) /\ (branch_c < max_branches \/ max_branches = -1)

\* ----------------------------------------------------------- the roots
Orders(n) ==
  {f \in [1..n -> 1..n] : \A i, j \in 1..n : f[i] = f[j] => i = j}

\* np.argsort(vw_frac) flipped: quicksort leaves the order of equal keys
\* open, so vw_frac_sortI is any order with non-increasing vw_frac
IsSortOrder(frac, sortI) ==
  \A i \in 1..(Len(sortI) - 1) : ~ FGt(frac[sortI[i + 1]], frac[sortI[i]])

KnapsackRoots(capacity, values, weights, int_problem) ==
  {ProblemData(capacity, values, weights, sortI, int_problem) :
     sortI \in {f \in Orders(Len(values)) :
                  IsSortOrder([i \in 1..Len(values) |->
                                 FDiv(values[i], weights[i])], f)}}

\* roots of the grid: the caller lists the items by decreasing
\* value / weight, items of equal value / weight by increasing weight
ListedByRatio(values, weights) ==
  \A i \in 1..(Len(values) - 1) :
     \/ values[i] * weights[i + 1] > values[i + 1] * weights[i]
     \/ /\ values[i] * weights[i + 1] = values[i + 1] * weights[i]
        /\ weights[i] <= weights[i + 1]

GridRoots ==
  UNION {KnapsackRoots(capacity, values, weights, int_problem) :
           <<capacity, values, weights, int_problem>> \in
             {t \in (0..MaxCapacity)
                    \X (UNION {[1..n -> 0..MaxValue] : n \in 0..MaxItems})
                    \X (UNION {[1..n -> 1..MaxWeight] : n \in 0..MaxItems})
                    \X BOOLEAN :
                /\ Len(t[2]) = Len(t[3])
                /\ ListedByRatio(t[2], t[3])}}

\* the knapsack scenario of the specification, and a root whose fractional
\* bound 22 * (45 / 33) is not exact in binary64
ScenarioProblem == <<50, <<60, 100, 120>>, <<10, 20, 30>>, FALSE>>
RoundingProblem == <<22, <<30, 15, 45, 14>>, <<22, 11, 33, 11>>, TRUE>>

ScenarioRoots ==
  UNION {KnapsackRoots(t[1], t[2], t[3], t[4]) :
           t \in {ScenarioProblem, RoundingProblem}}

Roots == GridRoots \cup ScenarioRoots

\* the calls of solve made on a root, one after the other, each on an
\* equivalently initialised root
Budgets == <<0>> \o [i \in 1..MaxBudget |-> i] \o <<-1>>

Schedule ==
  [k \in 1..(3 * Len(Budgets)) |->
     <<(<<"best_first", "depth_first", "breath_first">>)[((k - 1) \div Len(Budgets)) + 1],
       Budgets[((k - 1) % Len(Budgets)) + 1]>>]
  \o << <<"breadth_first", -1>> >>

\* ------------------------------------------------------------- the state
VARIABLES
  prob,             \* the problem data of the root
  copyDefined,      \* whether the global name `copy` is bound in knapsack
  objs,             \* the instances; objs[1] is the root
  pc,               \* "new", "loop", "popped", "branch", "returned", "raised",
                    \* "host"
  search_strategy,  \* arguments of the running call of solve
  max_branches,
  iset,             \* I_set._iset, references into objs
  best_I,           \* reference to the incumbent
  I,                \* reference to the instance taken from the set
  branch_c,
  iter_c,
  raised,           \* the exception that ended the call, or "none"
  ret,              \* the tuple solve returned
  pruned,           \* the last isPromising call on I returned False
  dropped,          \* the children the last branching did not add
  calls,            \* number of calls of solve made so far
  results,          \* the outcome of each finished call, in call order
  got               \* the host's last read of a bound of the root

vars == <<prob, copyDefined, objs, pc, search_strategy, max_branches, iset,
          best_I, I, branch_c, iter_c, raised, ret, pruned, dropped, calls,
          results, got>>

Outcome(r, t, set) ==
  [search_strategy |-> search_strategy,
   max_branches    |-> max_branches,
   raised          |-> r,
   ret             |-> t,
   pending         |-> Len(set)]

\* knapsack.py imports numpy and bb.Instance only: as shipped the global
\* name `copy` that Knapsack.copy looks up is unbound (copyDefined = FALSE)
\* and stays so unless the host binds it in the module before it calls
\* solve (copyDefined = TRUE).
Init ==
  /\ copyDefined \in {FALSE, TRUE}
  /\ prob \in Roots
  /\ objs = <<NewInstance(prob)>>
  /\ pc = "new"
  /\ search_strategy = ""
  /\ max_branches = -1
  /\ iset = << >>
  /\ best_I = 0
  /\ I = 0
  /\ branch_c = 0
  /\ iter_c = 0
  /\ raised = "none"
  /\ ret = NoneVal
  /\ pruned = FALSE
  /\ dropped = << >>
  /\ calls = 0
  /\ results = << >>
  /\ got = NoneVal

\* Knapsack(capacity, values, weights, int_problem) on the same data again
NewRoot ==
  /\ pc \in {"returned", "raised"}
  /\ calls < Len(Schedule)
  /\ objs' = <<NewInstance(prob)>>
  /\ pc' = "new"
  /\ iset' = << >>
  /\ best_I' = 0
  /\ I' = 0
  /\ branch_c' = 0
  /\ iter_c' = 0
  /\ raised' = "none"
  /\ ret' = NoneVal
  /\ pruned' = FALSE
  /\ dropped' = << >>
  /\ UNCHANGED <<prob, copyDefined, search_strategy, max_branches, calls,
                 results, got>>

\* solve(search_strategy, max_branches) up to the loop: genInitialSolution,
\* best_I = self, InstanceSet(self, search_strategy)
Solve(strategy, budget) ==
  /\ pc = "new"
  /\ calls < Len(Schedule)
  /\ <<strategy, budget>> = Schedule[calls + 1]
  /\ search_strategy' = strategy
  /\ max_branches' = budget
  /\ calls' = calls + 1
  /\ best_I' = 1
  /\ branch_c' = 0
  /\ iter_c' = 0
  /\ LET o == [objs EXCEPT ![1] = genInitialSolution(prob, objs[1])]
     IN  IF strategy \in Strategies
         THEN LET s == InstanceSetInit(prob, strategy, o, 1)
              IN  /\ objs' = s.objs
                  /\ iset' = s.iset
                  /\ pc' = "loop"
                  /\ raised' = "none"
                  /\ results' = results
         ELSE \* sys.exit(...) raises SystemExit
              /\ objs' = o
              /\ iset' = << >>
              /\ pc' = "raised"
              /\ raised' = "SystemExit"
              /\ results' = Append(results,
                              [search_strategy |-> strategy,
                               max_branches    |-> budget,
                               raised          |-> "SystemExit",
                               ret             |-> NoneVal,
                               pending         |-> 0])
  /\ got' = NoneVal
  /\ UNCHANGED <<prob, copyDefined, I, ret, pruned, dropped>>

\* the loop condition holds: I = I_set.getNextInstance()
GetNext ==
  /\ pc = "loop"
  /\ LoopCondition(iset, branch_c, max_branches)
  /\ LET n == getNextInstance(search_strategy, objs, iset)
     IN  /\ I' = n.item
         /\ iset' = n.iset
  /\ pc' = "popped"
  /\ pruned' = FALSE
  /\ dropped' = << >>
  /\ UNCHANGED <<prob, copyDefined, objs, search_strategy, max_branches,
                 best_I, branch_c, iter_c, raised, ret, calls, results, got>>

\* the iteration without the second isPromising: the instance is branched
\* whenever it was promising against the incumbent it met
ExamineNoRecheck ==
  /\ pc = "popped"
  /\ LET o1 == isPromisingStore(prob, objs, I)
         p1 == isPromising(prob, objs, I, best_I)
         o2 == isBetterThenStore(prob, o1, I)
         b2 == IF isBetterThen(prob, o1, I, best_I) THEN I ELSE best_I
     IN  /\ objs' = IF p1 THEN o2 ELSE o1
         /\ best_I' = IF p1 THEN b2 ELSE best_I
         /\ pruned' = ~ p1
         /\ pc' = IF p1 THEN "branch" ELSE "loop"
         /\ iter_c' = IF p1 THEN iter_c ELSE iter_c + 1
  /\ UNCHANGED <<prob, copyDefined, search_strategy, max_branches, iset, I,
                 branch_c, raised, ret, dropped, calls, results, got>>

\* isPromising, isBetterThen, isPromising again on the instance taken
Examine ==
  /\ pc = "popped"
  /\ LET o1 == isPromisingStore(prob, objs, I)
         p1 == isPromising(prob, objs, I, best_I)
         o2 == isBetterThenStore(prob, o1, I)
         b2 == IF isBetterThen(prob, o1, I, best_I) THEN I ELSE best_I
         p2 == isPromising(prob, o2, I, b2)
     IN  IF p1
         THEN /\ objs' = o2
              /\ best_I' = b2
              /\ pruned' = ~ p2
              /\ pc' = IF p2 THEN "branch" ELSE "loop"
              /\ iter_c' = IF p2 THEN iter_c ELSE iter_c + 1
         ELSE /\ objs' = o1
              /\ best_I' = best_I
              /\ pruned' = TRUE
              /\ pc' = "loop"
              /\ iter_c' = iter_c + 1
  /\ UNCHANGED <<prob, copyDefined, search_strategy, max_branches, iset, I,
                 branch_c, raised, ret, dropped, calls, results, got>>

\* for sub_I in I.branch(): add the promising ones; branch_c += 1; iter_c += 1
Branch ==
  /\ pc = "branch"
  /\ IF BranchCallsCopy(prob, objs[I]) /\ ~ copyDefined
     THEN \* copy.copy(origin): NameError, name 'copy' is not defined
          /\ pc' = "raised"
          /\ raised' = "NameError"
          /\ results' = Append(results, Outcome("NameError", NoneVal, iset))
          /\ UNCHANGED <<objs, iset, dropped, branch_c, iter_c>>
     ELSE LET st == AddPromising(prob, search_strategy, best_I,
                                 branch(prob, objs[I]),
                                 [objs |-> objs, iset |-> iset,
                                  dropped |-> << >>])
          IN  /\ objs' = st.objs
              /\ iset' = st.iset
              /\ dropped' = st.dropped
              /\ branch_c' = branch_c + 1
              /\ iter_c' = iter_c + 1
              /\ pc' = "loop"
              /\ UNCHANGED <<raised, results>>
  /\ UNCHANGED <<prob, copyDefined, search_strategy, max_branches, best_I, I,
                 ret, pruned, calls, got>>

\* the loop condition fails: return opt_solution, opt_value, branch_c, iter_c
Return ==
  /\ pc = "loop"
  /\ ~ LoopCondition(iset, branch_c, max_branches)
  /\ LET t == Some(<<getHeuristicSolution(objs[best_I]),
                     getHeuristicSolutionValue(objs[best_I]),
                     branch_c, iter_c>>)
     IN  /\ ret' = t
         /\ results' = Append(results, Outcome("none", t, iset))
  /\ pc' = "returned"
  /\ UNCHANGED <<prob, copyDefined, objs, search_strategy, max_branches, iset,
                 best_I, I, branch_c, iter_c, raised, pruned, dropped, calls,
                 got>>

\* The host reads a bound of the root, before the first call of solve or
\* after the last one
HostIdle ==
  \/ pc = "new" /\ calls = 0
  \/ pc \in {"returned", "raised", "host"} /\ calls = Len(Schedule)

ReadUpperBound ==
  /\ HostIdle
  /\ got' = Some([method |-> "getUpperBound",
                  isSet  |-> isUpperBoundSet(objs[1]),
                  value  |-> getUpperBound(objs[1]),
                  raised |-> "none"])
  /\ UNCHANGED <<prob, copyDefined, objs, pc, search_strategy, max_branches,
                 iset, best_I, I, branch_c, iter_c, raised, ret, pruned,
                 dropped, calls, results>>

ReadLowerBound ==
  /\ HostIdle
  /\ got' = Some([method |-> "getLowerBound",
                  isSet  |-> isLowerBoundSet(objs[1]),
                  value  |-> getLowerBound(objs[1]),
                  raised |-> "none"])
  /\ UNCHANGED <<prob, copyDefined, objs, pc, search_strategy, max_branches,
                 iset, best_I, I, branch_c, iter_c, raised, ret, pruned,
                 dropped, calls, results>>

\* After the last call the host includes one item in the root:
\* root.includeItem(vw_frac_sortI[index], index)
HostIncludeItem(index) ==
  /\ pc \in {"returned", "raised", "host"}
  /\ calls = Len(Schedule)
  /\ objs[1].index = 0
  /\ index < prob.n_items
  /\ LET item == prob.vw_frac_sortI[index + 1]
     IN  objs' = IF includeItemFits(prob, objs[1], item)
                 THEN [objs EXCEPT ![1] = includeItem(prob, objs[1], item, index)]
                 ELSE objs
  /\ pc' = "host"
  /\ got' = NoneVal
  /\ pruned' = FALSE
  /\ dropped' = << >>
  /\ UNCHANGED <<prob, copyDefined, search_strategy, max_branches, iset,
                 best_I, I, branch_c, iter_c, raised, ret, calls, results>>

\* After the last call the host computes the lower bound of the root:
\* root.calcLowerBound()
HostCalcLowerBound ==
  /\ pc \in {"returned", "raised", "host"}
  /\ calls = Len(Schedule)
  /\ objs' = [objs EXCEPT ![1] = calcLowerBound(prob, objs[1])]
  /\ pc' = "host"
  /\ got' = NoneVal
  /\ pruned' = FALSE
  /\ dropped' = << >>
  /\ UNCHANGED <<prob, copyDefined, search_strategy, max_branches, iset,
                 best_I, I, branch_c, iter_c, raised, ret, calls, results>>

Next ==
  \/ \E strategy \in Strategies \cup {"breadth_first"},
        budget \in -1..MaxBudget : Solve(strategy, budget)
  \/ GetNext
  \/ Examine
  \/ Branch
  \/ Return
  \/ NewRoot
  \/ ReadUpperBound
  \/ ReadLowerBound
  \/ \E index \in 0..(MaxItems + 1) : HostIncludeItem(index)
  \/ HostCalcLowerBound

Spec == Init /\ [][Next]_vars

\* ------------------------------------------------------------ the claims
RECURSIVE SumOver(_, _)
SumOver(S, f) ==
  IF S = {} THEN 0
  ELSE LET i == CHOOSE j \in S : TRUE IN f[i] + SumOver(S \ {i}, f)

\* the best value of a feasible solution reachable from x: the items x has
\* committed plus any subset of the items at the sorted positions not yet
\* decided that fits
BestReachable(p, x) ==
  LET free     == (x.index + 1)..p.n_items
      items(S) == {p.vw_frac_sortI[pos] : pos \in S}
      fits     == {S \in SUBSET free :
                     x.curr_weight + SumOver(items(S), p.weights)
                       <= p.max_capacity}
  IN  MaxOf({x.curr_value + SumOver(items(S), p.values) : S \in fits})

\* the maximum total value over all item subsets within the capacity
Optimum(p) == BestReachable(p, NewInstance(p))

\* the finished calls of solve with the given strategies and budgets
Finished(strategies, budgets) ==
  {i \in 1..Len(results) : /\ results[i].search_strategy \in strategies
                           /\ results[i].max_branches \in budgets}

Returned(r)      == r.raised = "none"
SolutionOf(r)    == Val(r.ret)[1]
ValueOf(r)       == Val(r.ret)[2]
BranchCountOf(r) == Val(r.ret)[3]
IterCountOf(r)   == Val(r.ret)[4]

\* C1: every call of solve with a supported strategy and max_branches = -1
\* ends by returning, with the frontier empty, the maximum total value over
\* all item subsets whose weight does not exceed the capacity.
C1_ReturnsOptimum ==
  \A i \in Finished(Strategies, {-1}) :
     /\ Returned(results[i])
     /\ results[i].pending = 0
     /\ ValueOf(results[i]) = Some(Optimum(prob))

\* C2: whenever isPromising answers false for a candidate (the instance
\* taken from the set, or a child that branching does not add), no feasible
\* solution reachable from the candidate is worth more than the incumbent's
\* lower bound.
C2_PruningSafe ==
  /\ pruned =>
       BestReachable(prob, objs[I]) <= Val(getLowerBound(objs[best_I]))
  /\ \A k \in 1..Len(dropped) :
       BestReachable(prob, dropped[k]) <= Val(getLowerBound(objs[best_I]))

\* C3: on one root with no branch budget, the calls of solve with
\* best_first, depth_first and breath_first all return, and return the same
\* value.
C3_StrategyIndependent ==
  \A i, j \in Finished(Strategies, {-1}) :
     /\ Returned(results[i])
     /\ Returned(results[j])
     /\ ValueOf(results[i]) = ValueOf(results[j])

\* C4: for one strategy and one root, the call with the larger budget (or
\* with no budget) returns a value at least as good as the call with the
\* smaller budget.
C4_BudgetMonotone ==
  \A i, j \in Finished(Strategies, -1..MaxBudget) :
     LET b1 == results[i].max_branches
         b2 == results[j].max_branches
     IN  (/\ results[i].search_strategy = results[j].search_strategy
          /\ b1 >= 0
          /\ (b2 = -1 \/ b1 <= b2))
         => /\ Returned(results[i])
            /\ Returned(results[j])
            /\ Val(ValueOf(results[j])) >= Val(ValueOf(results[i]))

\* C5: a call of solve with an unsupported search strategy fails with
\* ConfigurationError (and so never with the SystemExit that ends the
\* hosting process).
C5_ConfigurationError ==
  \A i \in 1..Len(results) :
     results[i].search_strategy \notin Strategies
       => results[i].raised = "ConfigurationError"

\* C6: after a call of solve that failed on the search strategy, the bounds
\* and the heuristic solution of the root are what they were before the call
\* (unset, on a root just constructed).
C6_NoPartialState ==
  (pc = "raised" /\ search_strategy \notin Strategies)
    => /\ getLowerBound(objs[1]) = getLowerBound(NewInstance(prob))
       /\ getUpperBound(objs[1]) = getUpperBound(NewInstance(prob))
       /\ getHeuristicSolution(objs[1])
            = getHeuristicSolution(NewInstance(prob))

\* C7: with max_branches = 0 solve takes nothing from the set and branches
\* nothing, and returns the heuristic solution and value that
\* genInitialSolution gave the root, with branch count 0.
C7_ZeroBudget ==
  /\ (max_branches = 0 /\ search_strategy \in Strategies)
       => pc \notin {"popped", "branch"}
  /\ \A i \in Finished(Strategies, {0}) :
       LET g == genInitialSolution(prob, NewInstance(prob))
       IN  /\ Returned(results[i])
           /\ SolutionOf(results[i]) = getHeuristicSolution(g)
           /\ ValueOf(results[i]) = getLowerBound(g)
           /\ BranchCountOf(results[i]) = 0
           /\ IterCountOf(results[i]) = 0
           /\ results[i].pending = 1

\* a call with max_branches = 0 has returned the greedy value of a root
\* whose optimum is better, so a search would have had work to do
C7_Witness ==
  \E i \in Finished(Strategies, {0}) :
     /\ Returned(results[i])
     /\ Val(ValueOf(results[i])) < Optimum(prob)

C9_Scenario ==
  (/\ prob.max_capacity = 50
   /\ prob.values = <<60, 100, 120>>
   /\ prob.weights = <<10, 20, 30>>)
    => \A i \in Finished({"best_first"}, {-1}) :
          /\ Returned(results[i])
          /\ ValueOf(results[i]) = Some(220)
          /\ SolutionOf(results[i]) = Some(<<0, 1, 1>>)

\* C10: getUpperBound() (getLowerBound()) on an instance whose upper (lower)
\* bound is unset fails with PreconditionError.
C10_UnsetBoundRaises ==
  (got # NoneVal /\ ~ Val(got).isSet)
    => Val(got).raised = "PreconditionError"

\* C11: on one root with no branch budget the three calls return, and the
\* iteration count returned under best_first is at most the one returned
\* under depth_first and at most the one returned under breath_first.
C11_BestFirstFewestIterations ==
  /\ \A i \in Finished(Strategies, {-1}) : Returned(results[i])
  /\ \A i \in Finished({"best_first"}, {-1}) :
       \A j \in Finished({"depth_first", "breath_first"}, {-1}) :
          (Returned(results[i]) /\ Returned(results[j]))
            => IterCountOf(results[i]) <= IterCountOf(results[j])

\* total weight and total value of the items a solution vector selects
WeightOf(p, h) == SumSeq([i \in 1..p.n_items |-> h[i] * p.weights[i]])
WorthOf(p, h)  == SumSeq([i \in 1..p.n_items |-> h[i] * p.values[i]])

HeuristicConsistent(p, x) ==
  isLowerBoundSet(x) =>
    LET h == Val(getHeuristicSolution(x))
    IN  /\ \A item \in 1..p.n_items : x.solution[item] = 1 => h[item] = 1
        /\ WeightOf(p, h) <= p.max_capacity
        /\ WorthOf(p, h) = Val(getLowerBound(x))

\* C12: an instance whose lower bound is set has a heuristic solution that
\* contains its committed items, weighs at most the capacity and is worth
\* the lower bound; the solution a call of solve returns is feasible and
\* its item values sum to the returned value.
C12_HeuristicConsistent ==
  /\ \A k \in 1..Len(objs) : HeuristicConsistent(prob, objs[k])
  /\ \A i \in Finished(Strategies, -1..MaxBudget) :
       Returned(results[i])
         => /\ WeightOf(prob, Val(SolutionOf(results[i]))) <= prob.max_capacity
            /\ WorthOf(prob, Val(SolutionOf(results[i])))
                 = Val(ValueOf(results[i]))

\* the lower bound of an instance with a committed item has been computed,
\* and the greedy completion added a further item
C12_Witness ==
  \E k \in 1..Len(objs) :
     /\ objs[k].index > 0
     /\ isLowerBoundSet(objs[k])
     /\ SumSeq(objs[k].solution) > 0
     /\ Val(getHeuristicSolution(objs[k])) # objs[k].solution

RangeOf(seq) == {seq[k] : k \in 1..Len(seq)}

InLoop == pc \in {"loop", "popped", "branch"}

IsChildOf(c, x) ==
  /\ \A item \in 1..Len(x.solution) : x.solution[item] = 1 => c.solution[item] = 1
  /\ SumSeq(c.solution) = SumSeq(x.solution) + 1

\* the last step of the loop branched I
JustBranched == pc = "loop" /\ I # 0 /\ ~ pruned

\* the children of I that the branching put in the frontier
ChildrenPushed == {ref \in RangeOf(iset) : IsChildOf(objs[ref], objs[I])}

ChildIndependent(p, x, c) ==
  /\ c.lower_bound = NoneVal
  /\ c.upper_bound = NoneVal
  /\ c.heur_solution = NoneVal
  /\ IsChildOf(c, x)
  /\ c.curr_weight <= p.max_capacity
  /\ c.curr_weight = WeightOf(p, c.solution)
  /\ c.curr_value = WorthOf(p, c.solution)

\* C20: branch() returns independent instances: the call made by solve on
\* the instance it took returns (it does not raise), leaves that instance's
\* committed solution, index, current weight and value, bounds and heuristic
\* solution as they were, and every child it returns has both bounds and
\* its heuristic solution unset, exactly one more committed item than the
\* parent and a total committed weight of at most the capacity.
C20_BranchIndependent ==
  [][pc = "branch" =>
       /\ pc' = "loop"
       /\ objs'[I] = objs[I]
       /\ getHeuristicSolution(objs'[best_I]) = getHeuristicSolution(objs[best_I])
       /\ \A k \in 1..Len(branch(prob, objs[I])) :
             ChildIndependent(prob, objs[I], branch(prob, objs[I])[k])]_vars

====
